---- MODULE Spec2Model ----
(***************************************************************************)
(* Model of the pattern-based extraction and validation engine             *)
(* HealthcareDataExtractor (src/src/data_extractor.py).                     *)
(*                                                                         *)
(* Texts and field values are sequences of one-character strings, so that  *)
(* the regular expressions, str.strip, datetime.strptime and               *)
(* datetime.fromisoformat are computed character by character.  A Python   *)
(* dict is a sequence of <<key, value>> pairs with distinct keys, in       *)
(* insertion order.                                                        *)
(***************************************************************************)
EXTENDS Integers, Sequences, FiniteSets, TLC

(***************************************************************************)
(* Characters                                                              *)
(***************************************************************************)
Digit == {"0", "1", "2", "3", "4", "5", "6", "7", "8", "9"}

LowerCase == {"a", "b", "c", "d", "e", "f", "g", "h", "i", "j", "k", "l", "m",
              "n", "o", "p", "q", "r", "s", "t", "u", "v", "w", "x", "y", "z"}

UpperCase == {"A", "B", "C", "D", "E", "F", "G", "H", "I", "J", "K", "L", "M",
              "N", "O", "P", "Q", "R", "S", "T", "U", "V", "W", "X", "Y", "Z"}

\* \w of the re module, on the ASCII part of the alphabet
Word == Digit \cup LowerCase \cup UpperCase \cup {"_"}

\* \s of the re module; also the characters str.strip removes
Space == {" ", "\n", "\t", "\r", "\f"}

\* str.lower on one character
Lower(c) ==
    CASE c = "A" -> "a" [] c = "B" -> "b" [] c = "C" -> "c" [] c = "D" -> "d"
      [] c = "E" -> "e" [] c = "F" -> "f" [] c = "G" -> "g" [] c = "H" -> "h"
      [] c = "I" -> "i" [] c = "J" -> "j" [] c = "K" -> "k" [] c = "L" -> "l"
      [] c = "M" -> "m" [] c = "N" -> "n" [] c = "O" -> "o" [] c = "P" -> "p"
      [] c = "Q" -> "q" [] c = "R" -> "r" [] c = "S" -> "s" [] c = "T" -> "t"
      [] c = "U" -> "u" [] c = "V" -> "v" [] c = "W" -> "w" [] c = "X" -> "x"
      [] c = "Y" -> "y" [] c = "Z" -> "z" [] OTHER -> c

\* int() of one decimal digit
DigitVal(c) ==
    CASE c = "0" -> 0 [] c = "1" -> 1 [] c = "2" -> 2 [] c = "3" -> 3
      [] c = "4" -> 4 [] c = "5" -> 5 [] c = "6" -> 6 [] c = "7" -> 7
      [] c = "8" -> 8 [] c = "9" -> 9

\* str() of one decimal digit
DigitChr(n) ==
    CASE n = 0 -> "0" [] n = 1 -> "1" [] n = 2 -> "2" [] n = 3 -> "3"
      [] n = 4 -> "4" [] n = 5 -> "5" [] n = 6 -> "6" [] n = 7 -> "7"
      [] n = 8 -> "8" [] n = 9 -> "9"

\* str.strip: leading and trailing whitespace removed
RECURSIVE LStrip(_)
LStrip(s) == IF s # <<>> /\ Head(s) \in Space THEN LStrip(Tail(s)) ELSE s

RECURSIVE RStrip(_)
RStrip(s) ==
    IF s # <<>> /\ s[Len(s)] \in Space THEN RStrip(SubSeq(s, 1, Len(s) - 1)) ELSE s

Strip(s) == RStrip(LStrip(s))

(***************************************************************************)
(* Regular expressions: the part of Python's re that the rule tables use.  *)
(* A pattern is a tree of records; Match returns the match states of a     *)
(* pattern from a state, in the order in which the backtracking matcher    *)
(* tries them (greedy repetitions longest first, alternatives left to      *)
(* right), so the head of the result is the match re.search reports.       *)
(* A match state is [pos, gs, ge]: the next position, and the span of      *)
(* group 1 (gs = 0 while the group has not matched).                       *)
(***************************************************************************)
Chr(S) == [t |-> "chr", set |-> S]
\* a literal under re.IGNORECASE; written in lower case
Lit(w) == [t |-> "lit", s |-> w]
Cat(rs) == [t |-> "cat", rs |-> rs]
Alt(rs) == [t |-> "alt", rs |-> rs]
\* r{lo,hi}; hi = -1 is no upper limit
Rep(r, lo, hi) == [t |-> "rep", r |-> r, lo |-> lo, hi |-> hi, greedy |-> TRUE]
Star(r) == Rep(r, 0, -1)
Plus(r) == Rep(r, 1, -1)
Opt(r) == Rep(r, 0, 1)
\* r+?
LazyPlus(r) == [t |-> "rep", r |-> r, lo |-> 1, hi |-> -1, greedy |-> FALSE]
\* ( r ), capturing group 1
Grp(r) == [t |-> "grp", r |-> r]
\* (?= r )
Ahead(r) == [t |-> "ahead", r |-> r]
\* $ without re.MULTILINE: at the end, or before a newline that ends the text
Dollar == [t |-> "dollar"]
\* \Z: at the end only
EndZ == [t |-> "endz"]

RECURSIVE Match(_, _, _)
RECURSIVE MatchAll(_, _, _)
RECURSIVE MatchCat(_, _, _, _)
RECURSIVE MatchAlt(_, _, _, _)
RECURSIVE MatchRep(_, _, _, _)
RECURSIVE MatchRepAll(_, _, _, _, _)

Match(r, s, st) ==
    CASE r.t = "chr" ->
           IF st.pos <= Len(s) /\ s[st.pos] \in r.set
           THEN <<[st EXCEPT !.pos = @ + 1]>> ELSE <<>>
      [] r.t = "lit" ->
           IF /\ st.pos + Len(r.s) - 1 <= Len(s)
              /\ \A i \in 1..Len(r.s) : Lower(s[st.pos + i - 1]) = r.s[i]
           THEN <<[st EXCEPT !.pos = @ + Len(r.s)]>> ELSE <<>>
      [] r.t = "cat" -> MatchCat(r.rs, 1, s, <<st>>)
      [] r.t = "alt" -> MatchAlt(r.rs, 1, s, st)
      [] r.t = "rep" -> MatchRep(r, s, st, 0)
      [] r.t = "grp" ->
           LET inner == Match(r.r, s, st)
           IN  [i \in 1..Len(inner) |->
                   [inner[i] EXCEPT !.gs = st.pos, !.ge = inner[i].pos]]
      [] r.t = "ahead" -> IF Match(r.r, s, st) # <<>> THEN <<st>> ELSE <<>>
      [] r.t = "dollar" ->
           IF \/ st.pos = Len(s) + 1
              \/ st.pos = Len(s) /\ s[st.pos] = "\n"
           THEN <<st>> ELSE <<>>
      [] r.t = "endz" -> IF st.pos = Len(s) + 1 THEN <<st>> ELSE <<>>

\* the matches of r from each of the states sts, in order
MatchAll(r, s, sts) ==
    IF sts = <<>> THEN <<>>
    ELSE Match(r, s, Head(sts)) \o MatchAll(r, s, Tail(sts))

MatchCat(rs, i, s, sts) ==
    IF i > Len(rs) \/ sts = <<>> THEN sts
    ELSE MatchCat(rs, i + 1, s, MatchAll(rs[i], s, sts))

MatchAlt(rs, i, s, st) ==
    IF i > Len(rs) THEN <<>>
    ELSE Match(rs[i], s, st) \o MatchAlt(rs, i + 1, s, st)

\* n repetitions done; an iteration that consumes nothing ends the loop
MatchRep(r, s, st, n) ==
    LET once == IF r.hi = -1 \/ n < r.hi
                THEN SelectSeq(Match(r.r, s, st), LAMBDA e : e.pos > st.pos)
                ELSE <<>>
        more == MatchRepAll(r, s, once, n + 1, 1)
        stop == IF n >= r.lo THEN <<st>> ELSE <<>>
    IN  IF r.greedy THEN more \o stop ELSE stop \o more

MatchRepAll(r, s, sts, n, i) ==
    IF i > Len(sts) THEN <<>>
    ELSE MatchRep(r, s, sts[i], n) \o MatchRepAll(r, s, sts, n, i + 1)

(***************************************************************************)
(* The rule tables of HealthcareDataExtractor.__init__.  Every pattern is  *)
(* searched with re.IGNORECASE | re.DOTALL; no pattern uses ".", so DOTALL *)
(* changes nothing, and IGNORECASE makes [A-Z] match both cases.           *)
(***************************************************************************)
\* (?i)(?:patient|name)[:\s]*(\w+(?:\s+\w+)*)
Re_patient_name ==
    Cat(<<Alt(<<Lit(<<"p", "a", "t", "i", "e", "n", "t">>), Lit(<<"n",
      "a", "m", "e">>)>>), Star(Chr(Space \cup {":"})),
      Grp(Cat(<<Plus(Chr(Word)), Star(Cat(<<Plus(Chr(Space)),
      Plus(Chr(Word))>>))>>))>>)

\* (?i)(?:dob|date of birth)[:\s]*(\d{1,2}[/-]\d{1,2}[/-]\d{2,4})
Re_date_of_birth ==
    Cat(<<Alt(<<Lit(<<"d", "o", "b">>), Lit(<<"d", "a", "t", "e", " ", "o",
      "f", " ", "b", "i", "r", "t", "h">>)>>), Star(Chr(Space \cup {":"})), Grp(Cat(<<Rep(Chr(Digit), 1, 2), Chr({"/", "-"}),
      Rep(Chr(Digit), 1, 2), Chr({"/", "-"}), Rep(Chr(Digit), 2, 4)>>))>>)

\* (?i)(?:member\s*id|policy\s*number)[:\s]*(\w+)
Re_member_id ==
    Cat(<<Alt(<<Cat(<<Lit(<<"m", "e", "m", "b", "e", "r">>),
      Star(Chr(Space)), Lit(<<"i", "d">>)>>), Cat(<<Lit(<<"p", "o", "l",
      "i", "c", "y">>), Star(Chr(Space)), Lit(<<"n", "u", "m", "b", "e",
      "r">>)>>)>>), Star(Chr(Space \cup {":"})), Grp(Plus(Chr(Word)))>>)

\* (?i)(?:date of service|service date|dos)[:\s]*(\d{1,2}[/-]\d{1,2}[/-]\d{2,4})
Re_date_of_service ==
    Cat(<<Alt(<<Lit(<<"d", "a", "t", "e", " ", "o", "f", " ", "s", "e",
      "r", "v", "i", "c", "e">>), Lit(<<"s", "e", "r", "v", "i", "c", "e",
      " ", "d", "a", "t", "e">>), Lit(<<"d", "o", "s">>)>>),
      Star(Chr(Space \cup {":"})), Grp(Cat(<<Rep(Chr(Digit), 1, 2),
      Chr({"/", "-"}), Rep(Chr(Digit), 1, 2), Chr({"/", "-"}),
      Rep(Chr(Digit), 2, 4)>>))>>)

\* (?i)(?:provider|doctor|physician)[:\s]*(\w+(?:\s+\w+)*)
Re_provider_name ==
    Cat(<<Alt(<<Lit(<<"p", "r", "o", "v", "i", "d", "e", "r">>),
      Lit(<<"d", "o", "c", "t", "o", "r">>), Lit(<<"p", "h", "y", "s",
      "i", "c", "i", "a", "n">>)>>), Star(Chr(Space \cup {":"})),
      Grp(Cat(<<Plus(Chr(Word)), Star(Cat(<<Plus(Chr(Space)),
      Plus(Chr(Word))>>))>>))>>)

\* (?i)(?:diagnosis|dx)[\s\w]*code[\s:]*([A-Z]\d{2,5}(?:\.\d+)?)
Re_diagnosis_code ==
    Cat(<<Alt(<<Lit(<<"d", "i", "a", "g", "n", "o", "s", "i", "s">>),
      Lit(<<"d", "x">>)>>), Star(Chr(Space \cup Word)), Lit(<<"c", "o",
      "d", "e">>), Star(Chr(Space \cup {":"})), Grp(Cat(<<Chr(UpperCase
      \cup LowerCase), Rep(Chr(Digit), 2, 5), Opt(Cat(<<Lit(<<".">>),
      Plus(Chr(Digit))>>))>>))>>)

\* (?i)(?:procedure|tx|treatment)[\s\w]*code[\s:]*([A-Z]\d{1,4}[A-Z]?\d{0,4})
Re_procedure_code ==
    Cat(<<Alt(<<Lit(<<"p", "r", "o", "c", "e", "d", "u", "r", "e">>),
      Lit(<<"t", "x">>), Lit(<<"t", "r", "e", "a", "t", "m", "e", "n",
      "t">>)>>), Star(Chr(Space \cup Word)), Lit(<<"c", "o", "d", "e">>),
      Star(Chr(Space \cup {":"})), Grp(Cat(<<Chr(UpperCase \cup
      LowerCase), Rep(Chr(Digit), 1, 4), Opt(Chr(UpperCase \cup
      LowerCase)), Rep(Chr(Digit), 0, 4)>>))>>)

\* (?i)(?:amount|total|charge|balance)[\s:]*\$?\s*(\d+(?:\.\d{2})?)
Re_amount ==
    Cat(<<Alt(<<Lit(<<"a", "m", "o", "u", "n", "t">>), Lit(<<"t", "o",
      "t", "a", "l">>), Lit(<<"c", "h", "a", "r", "g", "e">>), Lit(<<"b",
      "a", "l", "a", "n", "c", "e">>)>>), Star(Chr(Space \cup {":"})),
      Opt(Lit(<<"$">>)), Star(Chr(Space)), Grp(Cat(<<Plus(Chr(Digit)),
      Opt(Cat(<<Lit(<<".">>), Rep(Chr(Digit), 2, 2)>>))>>))>>)

\* (?i)(?:phone|tel|mobile)[\s:]*([\(]?\d{3}[-\s\.\)]?\s*\d{3}[-\s\.]?\s*\d{4})
Re_phone ==
    Cat(<<Alt(<<Lit(<<"p", "h", "o", "n", "e">>), Lit(<<"t", "e", "l">>),
      Lit(<<"m", "o", "b", "i", "l", "e">>)>>), Star(Chr(Space \cup
      {":"})), Grp(Cat(<<Opt(Lit(<<"(">>)), Rep(Chr(Digit), 3, 3),
      Opt(Chr(Space \cup {"-", ".", ")"})), Star(Chr(Space)),
      Rep(Chr(Digit), 3, 3), Opt(Chr(Space \cup {"-", "."})),
      Star(Chr(Space)), Rep(Chr(Digit), 4, 4)>>))>>)

\* (?i)(?:claim\s*#?|id)[\s:]*([A-Z0-9-]+)
Re_claim_number ==
    Cat(<<Alt(<<Cat(<<Lit(<<"c", "l", "a", "i", "m">>), Star(Chr(Space)),
      Opt(Lit(<<"#">>))>>), Lit(<<"i", "d">>)>>), Star(Chr(Space \cup
      {":"})), Grp(Plus(Chr(UpperCase \cup LowerCase \cup Digit \cup
      {"-"})))>>)

\* (?i)group\s*#?[\s:]*(\w+)
Re_group_number ==
    Cat(<<Lit(<<"g", "r", "o", "u", "p">>), Star(Chr(Space)),
      Opt(Lit(<<"#">>)), Star(Chr(Space \cup {":"})),
      Grp(Plus(Chr(Word)))>>)

\* (?i)adjustment\s*reason[\s:]*(\w[\w\s]+?)(?=\n|$)
Re_adjustment_reason ==
    Cat(<<Lit(<<"a", "d", "j", "u", "s", "t", "m", "e", "n", "t">>),
      Star(Chr(Space)), Lit(<<"r", "e", "a", "s", "o", "n">>),
      Star(Chr(Space \cup {":"})), Grp(Cat(<<Chr(Word), LazyPlus(Chr(Word
      \cup Space))>>)), Ahead(Alt(<<Lit(<<"\n">>), Dollar>>))>>)

\* (?i)patient\s*responsibility[\s:]*\$?\s*(\d+\.\d{2})
Re_patient_responsibility ==
    Cat(<<Lit(<<"p", "a", "t", "i", "e", "n", "t">>), Star(Chr(Space)),
      Lit(<<"r", "e", "s", "p", "o", "n", "s", "i", "b", "i", "l", "i",
      "t", "y">>), Star(Chr(Space \cup {":"})), Opt(Lit(<<"$">>)),
      Star(Chr(Space)), Grp(Cat(<<Plus(Chr(Digit)), Lit(<<".">>),
      Rep(Chr(Digit), 2, 2)>>))>>)

\* (?i)medication[\s:]*([\w\s-]+)(?=\n|$)
Re_medication ==
    Cat(<<Lit(<<"m", "e", "d", "i", "c", "a", "t", "i", "o", "n">>),
      Star(Chr(Space \cup {":"})), Grp(Plus(Chr(Word \cup Space \cup
      {"-"}))), Ahead(Alt(<<Lit(<<"\n">>), Dollar>>))>>)

\* (?i)dosage[\s:]*([\d\s\w/]+)(?=\n|$)
Re_dosage ==
    Cat(<<Lit(<<"d", "o", "s", "a", "g", "e">>), Star(Chr(Space \cup
      {":"})), Grp(Plus(Chr(Digit \cup Space \cup Word \cup {"/"}))),
      Ahead(Alt(<<Lit(<<"\n">>), Dollar>>))>>)

\* (?i)frequency[\s:]*([\w\s]+)(?=\n|$)
Re_frequency ==
    Cat(<<Lit(<<"f", "r", "e", "q", "u", "e", "n", "c", "y">>),
      Star(Chr(Space \cup {":"})), Grp(Plus(Chr(Word \cup Space))),
      Ahead(Alt(<<Lit(<<"\n">>), Dollar>>))>>)

\* (?i)refills?[\s:]*(\d+)
Re_refills ==
    Cat(<<Lit(<<"r", "e", "f", "i", "l", "l">>), Opt(Lit(<<"s">>)),
      Star(Chr(Space \cup {":"})), Grp(Plus(Chr(Digit)))>>)

\* (?i)prescriber[\s:]*([\w\s\.]+)(?=\n|$)
Re_prescriber ==
    Cat(<<Lit(<<"p", "r", "e", "s", "c", "r", "i", "b", "e", "r">>),
      Star(Chr(Space \cup {":"})), Grp(Plus(Chr(Word \cup Space \cup
      {"."}))), Ahead(Alt(<<Lit(<<"\n">>), Dollar>>))>>)

\* (?i)report\s*type[\s:]*([\w\s]+)(?=\n|$)
Re_report_type ==
    Cat(<<Lit(<<"r", "e", "p", "o", "r", "t">>), Star(Chr(Space)),
      Lit(<<"t", "y", "p", "e">>), Star(Chr(Space \cup {":"})),
      Grp(Plus(Chr(Word \cup Space))), Ahead(Alt(<<Lit(<<"\n">>),
      Dollar>>))>>)

\* (?i)findings[\s:]*([\w\s\.,-]+)(?=\n|\Z)
Re_findings ==
    Cat(<<Lit(<<"f", "i", "n", "d", "i", "n", "g", "s">>), Star(Chr(Space
      \cup {":"})), Grp(Plus(Chr(Word \cup Space \cup {".", ",", "-"}))),
      Ahead(Alt(<<Lit(<<"\n">>), EndZ>>))>>)

\* (?i)impression[\s:]*([\w\s\.,-]+)(?=\n|\Z)
Re_impression ==
    Cat(<<Lit(<<"i", "m", "p", "r", "e", "s", "s", "i", "o", "n">>),
      Star(Chr(Space \cup {":"})), Grp(Plus(Chr(Word \cup Space \cup {".",
      ",", "-"}))), Ahead(Alt(<<Lit(<<"\n">>), EndZ>>))>>)

\* (?i)recommendations?[\s:]*([\w\s\.,-]+)(?=\n|\Z)
Re_recommendations ==
    Cat(<<Lit(<<"r", "e", "c", "o", "m", "m", "e", "n", "d", "a", "t",
      "i", "o", "n">>), Opt(Lit(<<"s">>)), Star(Chr(Space \cup {":"})),
      Grp(Plus(Chr(Word \cup Space \cup {".", ",", "-"}))),
      Ahead(Alt(<<Lit(<<"\n">>), EndZ>>))>>)


\* self.patterns, in insertion order
patterns ==
    << <<"patient_name", Re_patient_name>>,
       <<"date_of_birth", Re_date_of_birth>>,
       <<"member_id", Re_member_id>>,
       <<"date_of_service", Re_date_of_service>>,
       <<"provider_name", Re_provider_name>>,
       <<"diagnosis_code", Re_diagnosis_code>>,
       <<"procedure_code", Re_procedure_code>>,
       <<"amount", Re_amount>>,
       <<"phone", Re_phone>> >>

insurance_claim_patterns ==
    << <<"claim_number", Re_claim_number>>,
       <<"group_number", Re_group_number>>,
       <<"adjustment_reason", Re_adjustment_reason>>,
       <<"patient_responsibility", Re_patient_responsibility>> >>

prescription_patterns ==
    << <<"medication", Re_medication>>,
       <<"dosage", Re_dosage>>,
       <<"frequency", Re_frequency>>,
       <<"refills", Re_refills>>,
       <<"prescriber", Re_prescriber>> >>

medical_report_patterns ==
    << <<"report_type", Re_report_type>>,
       <<"findings", Re_findings>>,
       <<"impression", Re_impression>>,
       <<"recommendations", Re_recommendations>> >>

\* self.doc_type_patterns
doc_type_patterns ==
    << <<"insurance_claim", insurance_claim_patterns>>,
       <<"prescription", prescription_patterns>>,
       <<"medical_report", medical_report_patterns>> >>

(***************************************************************************)
(* Python values and dicts                                                 *)
(***************************************************************************)
\* a str, as its characters
Str(s) == [ty |-> "str", v |-> s]
\* None
None == [ty |-> "NoneType", v |-> <<>>]
\* a float m * 10^e, m without trailing zeros (0.0 is <<0, 0>>)
Float(m, e) == [ty |-> "float", v |-> <<m, e>>]

\* a bytes object, as its bytes
Bytes(s) == [ty |-> "bytes", v |-> s]

\* an exception, by its class and its message str(e); NoExc is no exception
Exc(cls, msg) == [cls |-> cls, msg |-> msg]
NoExc == Exc("", "")

\* bool(x) of a text or of a field value
Truthy(x) ==
    CASE x.ty = "str" -> x.v # <<>>
      [] x.ty = "NoneType" -> FALSE
      [] x.ty = "float" -> x.v[1] # 0
      [] x.ty = "bytes" -> x.v # <<>>

EmptyDict == <<>>
Keys(d) == {d[i][1] : i \in 1..Len(d)}
\* d[k], for k in d
Get(d, k) == d[CHOOSE i \in 1..Len(d) : d[i][1] = k][2]
\* d[k] = x: a new key goes to the end, an old key keeps its place
Put(d, k, x) ==
    IF k \in Keys(d)
    THEN [i \in 1..Len(d) |-> IF d[i][1] = k THEN <<k, x>> ELSE d[i]]
    ELSE Append(d, <<k, x>>)

\* d.update(e) gone wrong: e takes the place of d
Update_Replace(d, e) == IF e = <<>> THEN d ELSE e

\* d.update(e)
RECURSIVE Update(_, _)
Update(d, e) ==
    IF e = <<>> THEN d ELSE Update(Put(d, Head(e)[1], Head(e)[2]), Tail(e))

(***************************************************************************)
(* _extract_using_patterns                                                 *)
(***************************************************************************)
\* match.groups() is non-empty: the pattern has a capturing group
RECURSIVE HasGroup(_)
HasGroup(r) ==
    CASE r.t = "grp" -> TRUE
      [] r.t \in {"cat", "alt"} -> \E i \in 1..Len(r.rs) : HasGroup(r.rs[i])
      [] r.t \in {"rep", "ahead"} -> HasGroup(r.r)
      [] OTHER -> FALSE

\* re.search: the first match at the leftmost position that has one, as
\* [found, start, pos, gs, ge]
Search(r, s) ==
    LET at == [i \in 1..Len(s) + 1 |-> Match(r, s, [pos |-> i, gs |-> 0, ge |-> 0])]
        hits == {i \in 1..Len(s) + 1 : at[i] # <<>>}
    IN  IF hits = {}
        THEN [found |-> FALSE, start |-> 0, pos |-> 0, gs |-> 0, ge |-> 0]
        ELSE LET i == CHOOSE j \in hits : \A k \in hits : j <= k
             IN  [found |-> TRUE, start |-> i, pos |-> at[i][1].pos,
                  gs |-> at[i][1].gs, ge |-> at[i][1].ge]

\* match.group(1).strip() if match.groups() else match.group(0).strip()
MatchValue(r, s, m) ==
    IF HasGroup(r) THEN Strip(SubSeq(s, m.gs, m.ge - 1))
    ELSE Strip(SubSeq(s, m.start, m.pos - 1))

RECURSIVE ExtractLoop(_, _, _, _)
ExtractLoop(text, pats, i, extracted) ==
    IF i > Len(pats) THEN extracted
    ELSE LET field == pats[i][1]
             m == Search(pats[i][2], text)
         IN  ExtractLoop(text, pats, i + 1,
                 IF m.found
                 THEN Put(extracted, field, Str(MatchValue(pats[i][2], text, m)))
                 ELSE extracted)

ExtractUsingPatterns(text, pats) == ExtractLoop(text, pats, 1, EmptyDict)

(***************************************************************************)
(* _post_process_fields and _parse_date                                    *)
(***************************************************************************)
\* the characters of a field name
Spelling(key) ==
    CASE key = "patient_name" ->
             <<"p", "a", "t", "i", "e", "n", "t", "_", "n", "a", "m", "e">>
      [] key = "date_of_birth" ->
             <<"d", "a", "t", "e", "_", "o", "f", "_", "b", "i", "r", "t", "h">>
      [] key = "member_id" ->
             <<"m", "e", "m", "b", "e", "r", "_", "i", "d">>
      [] key = "date_of_service" ->
             <<"d", "a", "t", "e", "_", "o", "f", "_", "s", "e", "r", "v", "i", "c", "e">>
      [] key = "provider_name" ->
             <<"p", "r", "o", "v", "i", "d", "e", "r", "_", "n", "a", "m", "e">>
      [] key = "diagnosis_code" ->
             <<"d", "i", "a", "g", "n", "o", "s", "i", "s", "_", "c", "o", "d", "e">>
      [] key = "procedure_code" ->
             <<"p", "r", "o", "c", "e", "d", "u", "r", "e", "_", "c", "o", "d", "e">>
      [] key = "amount" ->
             <<"a", "m", "o", "u", "n", "t">>
      [] key = "phone" ->
             <<"p", "h", "o", "n", "e">>
      [] key = "claim_number" ->
             <<"c", "l", "a", "i", "m", "_", "n", "u", "m", "b", "e", "r">>
      [] key = "group_number" ->
             <<"g", "r", "o", "u", "p", "_", "n", "u", "m", "b", "e", "r">>
      [] key = "adjustment_reason" ->
             <<"a", "d", "j", "u", "s", "t", "m", "e", "n", "t", "_", "r", "e", "a", "s", "o", "n">>
      [] key = "patient_responsibility" ->
             <<"p", "a", "t", "i", "e", "n", "t", "_", "r", "e", "s", "p", "o", "n", "s", "i", "b", "i", "l", "i", "t", "y">>
      [] key = "medication" ->
             <<"m", "e", "d", "i", "c", "a", "t", "i", "o", "n">>
      [] key = "dosage" ->
             <<"d", "o", "s", "a", "g", "e">>
      [] key = "frequency" ->
             <<"f", "r", "e", "q", "u", "e", "n", "c", "y">>
      [] key = "refills" ->
             <<"r", "e", "f", "i", "l", "l", "s">>
      [] key = "prescriber" ->
             <<"p", "r", "e", "s", "c", "r", "i", "b", "e", "r">>
      [] key = "report_type" ->
             <<"r", "e", "p", "o", "r", "t", "_", "t", "y", "p", "e">>
      [] key = "findings" ->
             <<"f", "i", "n", "d", "i", "n", "g", "s">>
      [] key = "impression" ->
             <<"i", "m", "p", "r", "e", "s", "s", "i", "o", "n">>
      [] key = "recommendations" ->
             <<"r", "e", "c", "o", "m", "m", "e", "n", "d", "a", "t", "i", "o", "n", "s">>
      [] key = "Visit_Date" ->
             <<"V", "i", "s", "i", "t", "_", "D", "a", "t", "e">>
      [] key = "patient_dob" ->
             <<"p", "a", "t", "i", "e", "n", "t", "_", "d", "o", "b">>
      [] key = "notes" ->
             <<"n", "o", "t", "e", "s">>

\* str.lower
LowerStr(s) == [i \in 1..Len(s) |-> Lower(s[i])]

\* w in s
Contains(s, w) ==
    \E i \in 1..(Len(s) - Len(w) + 1) : SubSeq(s, i, i + Len(w) - 1) = w

\* 'date' in key.lower() or 'dob' in key.lower()
IsDateKey(key) ==
    \/ Contains(LowerStr(Spelling(key)), <<"d", "a", "t", "e">>)
    \/ Contains(LowerStr(Spelling(key)), <<"d", "o", "b">>)

\* key in ['amount', 'patient_responsibility']
IsAmountKey(key) == key \in {"amount", "patient_responsibility"}

\* s.replace(c, '')
Remove(s, c) == SelectSeq(s, LAMBDA x : x # c)

\* int() of a run of digits, spaces skipped
RECURSIVE IntOf(_)
IntOf(s) ==
    IF s = <<>> THEN 0
    ELSE IF s[Len(s)] \in Digit
         THEN 10 * IntOf(SubSeq(s, 1, Len(s) - 1)) + DigitVal(s[Len(s)])
         ELSE IntOf(SubSeq(s, 1, Len(s) - 1))

\* '%0*d' % (width, n)
RECURSIVE Pad(_, _)
Pad(n, width) ==
    IF width <= 1 /\ n < 10 THEN <<DigitChr(n)>>
    ELSE Append(Pad(n \div 10, width - 1), DigitChr(n % 10))

\* float(): [sign] digits [. digits] | [sign] . digits; the amount values of
\* this model hold no exponent, underscore, "inf" or "nan"
FloatSyntax ==
    Cat(<<Opt(Chr({"+", "-"})),
          Alt(<<Cat(<<Plus(Chr(Digit)), Opt(Cat(<<Lit(<<".">>), Star(Chr(Digit))>>))>>),
                Cat(<<Lit(<<".">>), Plus(Chr(Digit))>>)>>),
          EndZ>>)

RECURSIVE Normal(_, _)
Normal(m, e) ==
    IF m = 0 THEN <<0, 0>>
    ELSE IF m % 10 = 0 THEN Normal(m \div 10, e + 1) ELSE <<m, e>>

\* float(s) as [ok, val]; ok = FALSE is ValueError
PyFloat(s) ==
    LET t == Strip(s)
        dot == {i \in 1..Len(t) : t[i] = "."}
        frac == IF dot = {} THEN 0 ELSE Len(t) - (CHOOSE i \in dot : TRUE)
        mag == Normal(IntOf(Remove(t, ".")), 0 - frac)
    IN  IF Match(FloatSyntax, t, [pos |-> 1, gs |-> 0, ge |-> 0]) = <<>>
        THEN [ok |-> FALSE, val |-> None]
        ELSE [ok |-> TRUE,
              val |-> IF t[1] = "-" THEN Float(0 - mag[1], mag[2])
                      ELSE Float(mag[1], mag[2])]

\* the regular expressions of _strptime for %m, %d, %Y and %y
Re_m == Alt(<<Cat(<<Lit(<<"1">>), Chr({"0", "1", "2"})>>),
              Cat(<<Lit(<<"0">>), Chr(Digit \ {"0"})>>),
              Chr(Digit \ {"0"})>>)
Re_d == Alt(<<Cat(<<Lit(<<"3">>), Chr({"0", "1"})>>),
              Cat(<<Chr({"1", "2"}), Chr(Digit)>>),
              Cat(<<Lit(<<"0">>), Chr(Digit \ {"0"})>>),
              Chr(Digit \ {"0"}),
              Cat(<<Lit(<<" ">>), Chr(Digit \ {"0"})>>)>>)
Re_Y == Rep(Chr(Digit), 4, 4)
Re_y == Rep(Chr(Digit), 2, 2)

Directive(d) ==
    CASE d = "%m" -> Re_m [] d = "%d" -> Re_d [] d = "%Y" -> Re_Y
      [] d = "%y" -> Re_y [] OTHER -> Lit(<<d>>)

\* the format list gone wrong: the second format reads the day first
DateFormats_DayFirst ==
    << <<"%m", "/", "%d", "/", "%Y">>,
       <<"%d", "-", "%m", "-", "%Y">>,
       <<"%Y", "-", "%m", "-", "%d">>,
       <<"%m", "/", "%d", "/", "%y">>,
       <<"%m", "-", "%d", "-", "%y">> >>

\* the format list gone wrong: the third format reads the day before the month
DateFormats_YearDayMonth ==
    << <<"%m", "/", "%d", "/", "%Y">>,
       <<"%m", "-", "%d", "-", "%Y">>,
       <<"%Y", "-", "%d", "-", "%m">>,
       <<"%m", "/", "%d", "/", "%y">>,
       <<"%m", "-", "%d", "-", "%y">> >>

\* the date formats of _parse_date, in the order tried
DateFormats ==
    << <<"%m", "/", "%d", "/", "%Y">>,
       <<"%m", "-", "%d", "-", "%Y">>,
       <<"%Y", "-", "%m", "-", "%d">>,
       <<"%m", "/", "%d", "/", "%y">>,
       <<"%m", "-", "%d", "-", "%y">> >>

IsLeap(y) == y % 4 = 0 /\ (y % 100 # 0 \/ y % 400 = 0)

DaysInMonth(y, m) ==
    IF m = 2 THEN (IF IsLeap(y) THEN 29 ELSE 28)
    ELSE IF m \in {4, 6, 9, 11} THEN 30 ELSE 31

\* datetime.strptime(s, fmt) as [ok, y, m, d]; ok = FALSE is ValueError.
\* The format's expression must match at the start and use up the string;
\* the three numbers are the runs between the two separators; a two-digit
\* year below 69 is in 2000-2068, else in 1969-1999; the date must exist.
Strptime(s, fmt) ==
    LET re == Cat(<<Directive(fmt[1]), Directive(fmt[2]), Directive(fmt[3]),
                    Directive(fmt[4]), Directive(fmt[5])>>)
        ms == Match(re, s, [pos |-> 1, gs |-> 0, ge |-> 0])
        bad == [ok |-> FALSE, y |-> 0, m |-> 0, d |-> 0]
    IN  IF ms = <<>> \/ ms[1].pos # Len(s) + 1 THEN bad
        ELSE LET seps == {i \in 1..Len(s) : s[i] = fmt[2]}
                 i1 == CHOOSE i \in seps : \A j \in seps : i <= j
                 i2 == CHOOSE i \in seps : \A j \in seps : i >= j
                 n1 == IntOf(SubSeq(s, 1, i1 - 1))
                 n2 == IntOf(SubSeq(s, i1 + 1, i2 - 1))
                 n3 == IntOf(SubSeq(s, i2 + 1, Len(s)))
                 num == [k \in {1, 3, 5} |->
                            IF k = 1 THEN n1 ELSE IF k = 3 THEN n2 ELSE n3]
                 at(d) == num[CHOOSE k \in {1, 3, 5} : fmt[k] = d]
                 yy == IF \E k \in {1, 3, 5} : fmt[k] = "%Y" THEN at("%Y")
                       ELSE IF at("%y") <= 68 THEN 2000 + at("%y")
                            ELSE 1900 + at("%y")
                 mm == at("%m")
                 dd == at("%d")
             IN  IF yy >= 1 /\ dd <= DaysInMonth(yy, mm)
                 THEN [ok |-> TRUE, y |-> yy, m |-> mm, d |-> dd]
                 ELSE bad

\* date.isoformat()
IsoFormat(y, m, d) == Pad(y, 4) \o <<"-">> \o Pad(m, 2) \o <<"-">> \o Pad(d, 2)

\* the loop over the formats, from format i on
RECURSIVE ParseDateFrom(_, _)
ParseDateFrom(date_str, i) ==
    IF i > Len(DateFormats) THEN Str(date_str)
    ELSE LET dt == Strptime(date_str, DateFormats[i])
         IN  IF dt.ok THEN Str(IsoFormat(dt.y, dt.m, dt.d))
             ELSE ParseDateFrom(date_str, i + 1)

\* _parse_date
ParseDate(date_str) ==
    IF date_str = <<>> THEN None ELSE ParseDateFrom(date_str, 1)

\* the loop body gone wrong: float(cleaned), with '$' and ',' left in
PostProcessItem_NoClean(processed, key, value) ==
    LET cleaned == Strip(value.v)
        num == PyFloat(cleaned)
    IN  IF ~Truthy(value) THEN processed
        ELSE IF IsAmountKey(key)
             THEN Put(processed, key, IF num.ok THEN num.val ELSE Str(cleaned))
             ELSE IF IsDateKey(key)
                  THEN Put(processed, key, ParseDate(cleaned))
                  ELSE Put(processed, key, Str(cleaned))

\* the body of the loop of _post_process_fields for one item
PostProcessItem(processed, key, value) ==
    LET cleaned == Strip(value.v)
        num == PyFloat(Remove(Remove(cleaned, "$"), ","))
    IN  IF ~Truthy(value) THEN processed
        ELSE IF IsAmountKey(key)
             THEN Put(processed, key, IF num.ok THEN num.val ELSE Str(cleaned))
             ELSE IF IsDateKey(key)
                  THEN Put(processed, key, ParseDate(cleaned))
                  ELSE Put(processed, key, Str(cleaned))

\* the loop over fields.items(), from item i on, as [exc, processed]:
\* value.strip() of a truthy value that is no str raises AttributeError
\* outside of every try of the function
RECURSIVE PostProcessLoop(_, _, _)
PostProcessLoop(fields, i, processed) ==
    IF i > Len(fields) THEN [exc |-> NoExc, processed |-> processed]
    ELSE IF Truthy(fields[i][2]) /\ fields[i][2].ty # "str"
         THEN [exc |-> Exc("AttributeError",
                           "'float' object has no attribute 'strip'"),
               processed |-> processed]
         ELSE PostProcessLoop(fields, i + 1,
                  PostProcessItem(processed, fields[i][1], fields[i][2]))

\* _post_process_fields as [exc, processed]; exc = NoExc is a normal return
\* of processed
PostProcessFields(fields) == PostProcessLoop(fields, 1, EmptyDict)

(***************************************************************************)
(* _validate_extracted_data                                                *)
(***************************************************************************)
required_fields ==
    << <<"insurance_claim", <<"patient_name", "member_id", "date_of_service">> >>,
       <<"prescription", <<"patient_name", "medication", "dosage">> >>,
       <<"medical_report", <<"patient_name", "report_type">> >> >>

\* datetime.fromisoformat(value) succeeds, for a value of digits, "/" and
\* "-" that is no longer than ten characters and is not eight digits:
\* YYYY-MM-DD naming a date that exists
FromIsoFormatOk(s) ==
    /\ Len(s) = 10
    /\ \A i \in {1, 2, 3, 4, 6, 7, 9, 10} : s[i] \in Digit
    /\ s[5] = "-" /\ s[8] = "-"
    /\ LET y == IntOf(SubSeq(s, 1, 4))
           m == IntOf(SubSeq(s, 6, 7))
           d == IntOf(SubSeq(s, 9, 10))
       IN  y >= 1 /\ m \in 1..12 /\ d >= 1 /\ d <= DaysInMonth(y, m)

MissingRequired(field) == [msg |-> "Missing required field", field |-> field]
InvalidDate(field, value) ==
    [msg |-> "Invalid date format for", field |-> field, value |-> value]

\* the loop gone wrong: the error is appended, is_valid is left alone
RECURSIVE CheckRequired_NoFlag(_, _, _, _)
CheckRequired_NoFlag(fields, req, i, validation) ==
    IF i > Len(req) THEN validation
    ELSE CheckRequired_NoFlag(fields, req, i + 1,
            IF req[i] \notin Keys(fields) \/ ~Truthy(Get(fields, req[i]))
            THEN [validation EXCEPT !.errors = Append(@, MissingRequired(req[i]))]
            ELSE validation)

\* the loop gone wrong: the error is put at the head of the list
RECURSIVE CheckRequired_Prepend(_, _, _, _)
CheckRequired_Prepend(fields, req, i, validation) ==
    IF i > Len(req) THEN validation
    ELSE CheckRequired_Prepend(fields, req, i + 1,
            IF req[i] \notin Keys(fields) \/ ~Truthy(Get(fields, req[i]))
            THEN [validation EXCEPT !.is_valid = FALSE,
                                    !.errors = <<MissingRequired(req[i])>> \o @]
            ELSE validation)

\* the loop over required_fields[doc_type], from field i on
RECURSIVE CheckRequired(_, _, _, _)
CheckRequired(fields, req, i, validation) ==
    IF i > Len(req) THEN validation
    ELSE CheckRequired(fields, req, i + 1,
            IF req[i] \notin Keys(fields) \/ ~Truthy(Get(fields, req[i]))
            THEN [validation EXCEPT !.is_valid = FALSE,
                                    !.errors = Append(@, MissingRequired(req[i]))]
            ELSE validation)

\* the loop gone wrong: a warning also clears is_valid
RECURSIVE CheckDates_Invalidates(_, _, _)
CheckDates_Invalidates(fields, i, validation) ==
    IF i > Len(fields) THEN validation
    ELSE CheckDates_Invalidates(fields, i + 1,
            IF /\ fields[i][2].ty = "str"
               /\ IsDateKey(fields[i][1])
               /\ ~FromIsoFormatOk(fields[i][2].v)
            THEN [validation EXCEPT
                    !.is_valid = FALSE,
                    !.warnings = Append(@, InvalidDate(fields[i][1], fields[i][2].v))]
            ELSE validation)

\* the loop over fields.items(), from item i on
RECURSIVE CheckDates(_, _, _)
CheckDates(fields, i, validation) ==
    IF i > Len(fields) THEN validation
    ELSE CheckDates(fields, i + 1,
            IF /\ fields[i][2].ty = "str"
               /\ IsDateKey(fields[i][1])
               /\ ~FromIsoFormatOk(fields[i][2].v)
            THEN [validation EXCEPT
                    !.warnings = Append(@, InvalidDate(fields[i][1], fields[i][2].v))]
            ELSE validation)

\* the validator gone wrong: a doc_type without an entry is checked against
\* the first entry of required_fields
ValidateExtractedData_Default(fields, doc_type) ==
    LET validation == [is_valid |-> TRUE, errors |-> <<>>, warnings |-> <<>>]
        req == IF doc_type.ty = "str" /\ doc_type.v \in Keys(required_fields)
               THEN Get(required_fields, doc_type.v)
               ELSE required_fields[1][2]
    IN  CheckDates(fields, 1, CheckRequired(fields, req, 1, validation))

\* the validator gone wrong: a report without its warnings
ValidateExtractedData_NoWarnings(fields, doc_type) ==
    LET validation == [is_valid |-> TRUE, errors |-> <<>>]
    IN  IF doc_type.ty = "str" /\ doc_type.v \in Keys(required_fields)
        THEN [is_valid |-> \A i \in 1..Len(Get(required_fields, doc_type.v)) :
                             Get(required_fields, doc_type.v)[i] \in Keys(fields),
              errors |-> <<>>]
        ELSE validation

\* _validate_extracted_data, for a doc_type that is None or a str
ValidateExtractedData(fields, doc_type) ==
    LET validation == [is_valid |-> TRUE, errors |-> <<>>, warnings |-> <<>>]
        checked == IF doc_type.ty = "str" /\ doc_type.v \in Keys(required_fields)
                   THEN CheckRequired(fields, Get(required_fields, doc_type.v), 1,
                                      validation)
                   ELSE validation
    IN  CheckDates(fields, 1, checked)

(***************************************************************************)
(* The inputs of the model                                                 *)
(***************************************************************************)
\* the most lines a text has
MaxLines == 3

Line_name == <<"N", "a", "m", "e", ":", " ", "J", "o", "h", "n", " ", "D", "o", "e">>
Line_member == <<"M", "e", "m", "b", "e", "r", " ", "I", "D", ":", " ", "A", "B", "C", "1", "2", "3", "4", "5", "6">>
Line_service ==
    <<"D", "a", "t", "e", " ", "o", "f", " ", "S", "e", "r", "v", "i", "c", "e", ":", " ", "0", "5", "/", "1", "0", "/", "2", "0", "2", "3">>
Line_dob == <<"D", "O", "B", ":", " ", "1", "5", "-", "0", "1", "-", "1", "9", "8", "0">>
Line_medication == <<"M", "e", "d", "i", "c", "a", "t", "i", "o", "n", ":", " ", "A", "d", "v", "i", "l">>
Line_dosage == <<"D", "o", "s", "a", "g", "e", ":", " ", "5", "m", "g">>
Line_report == <<"R", "e", "p", "o", "r", "t", " ", "T", "y", "p", "e", ":", " ", "X", "r", "a", "y">>

LinePool ==
    <<Line_name, Line_member, Line_service, Line_dob, Line_medication,
      Line_dosage, Line_report>>

\* '\n'.join of the lines of the pool at the indexes ls
RECURSIVE JoinLines(_)
JoinLines(ls) ==
    IF ls = <<>> THEN <<>>
    ELSE IF Len(ls) = 1 THEN LinePool[ls[1]]
         ELSE LinePool[ls[1]] \o <<"\n">> \o JoinLines(Tail(ls))

\* the sequences of at most MaxLines different lines of the pool
LineChoices ==
    UNION {{ls \in [1..n -> 1..Len(LinePool)] :
                \A i, j \in 1..n : i # j => ls[i] # ls[j]} : n \in 1..MaxLines}

\* the texts a call is made with: documents, the empty str, None, and a bytes
\* object passed where a str is expected
Texts ==
    {Str(JoinLines(ls)) : ls \in LineChoices}
        \cup {Str(<<>>), None, Bytes(<<"a", "b", "c">>)}

\* a doc_type: a str or None, or a list passed where a str is expected
DocStr(name) == [ty |-> "str", v |-> name]
DocNone == [ty |-> "NoneType", v |-> "None"]
DocList(repr) == [ty |-> "list", v |-> repr]

DocTypes ==
    {DocStr("insurance_claim"), DocStr("prescription"), DocStr("medical_report"),
     DocStr("unknown_type"), DocStr("id_proof"), DocStr(""), DocNone,
     DocList("['x']"), DocList("[]")}

\* bool(doc_type)
DocTruthy(dt) ==
    CASE dt.ty = "str" -> dt.v # ""
      [] dt.ty = "NoneType" -> FALSE
      [] dt.ty = "list" -> dt.v # "[]"

(***************************************************************************)
(* extract_structured_data, step by step                                   *)
(***************************************************************************)
VARIABLES
    pc,             \* where the call is: idle, common, specific, post, validate, done
    text,           \* the argument text
    doc_type,       \* the argument doc_type
    result,         \* the dict result; at done, the value returned
    common_fields,  \* the local common_fields
    doc_specific,   \* the local doc_specific
    raised,         \* the message of an exception that left the call, or ""
    npc,            \* the normalizer run directly: raw, normalized, validated, renormalized
    nfields,        \* its argument fields
    pass1,          \* _post_process_fields(nfields)
    pass2,          \* _post_process_fields of the map of pass1
    nvalidation,    \* _validate_extracted_data of the map of pass1
    self,           \* the extractor's attributes patterns and doc_type_patterns
    threads,        \* for each concurrent caller, the locals of its call
    uploads,        \* the files in the directory UPLOAD_DIR
    request,        \* the last upload_document request that was answered
    processed       \* the last call of process_document that ended

vars == <<pc, text, doc_type, result, common_fields, doc_specific, raised,
          npc, nfields, pass1, pass2, nvalidation, self, threads,
          uploads, request, processed>>

callVars == <<pc, text, doc_type, result, common_fields, doc_specific, raised>>
normVars == <<npc, nfields, pass1, pass2, nvalidation>>
threadVars == <<self, threads>>
serviceVars == <<uploads, request, processed>>

\* what a single call and a direct call of the normalizer leave alone
outerVars == <<threadVars, serviceVars>>

\* the callers that share one HealthcareDataExtractor
MaxCallers == 2
Callers == 1..MaxCallers

\* "return {}" gone wrong: a result with an empty field map
EmptyResult_WithFields == [extracted_fields |-> EmptyDict]

\* {}
EmptyResult == [k \in {} |-> k]
NoRun == [exc |-> NoExc, processed |-> EmptyDict]
NoValidation == [is_valid |-> TRUE, errors |-> <<>>, warnings |-> <<>>]

CallInit ==
    /\ pc = "idle"
    /\ text = None
    /\ doc_type = DocNone
    /\ result = EmptyResult
    /\ common_fields = EmptyDict
    /\ doc_specific = EmptyDict
    /\ raised = ""

NormIdle ==
    /\ npc = "idle"
    /\ nfields = EmptyDict
    /\ pass1 = NoRun
    /\ pass2 = NoRun
    /\ nvalidation = NoValidation

\* __init__ has set the rule tables; no caller is in a call
ThreadIdle ==
    /\ self = [patterns |-> patterns, doc_type_patterns |-> doc_type_patterns]
    /\ threads = [c \in Callers |->
                     [pc |-> "idle", text |-> None, doc_type |-> DocNone,
                      result |-> EmptyResult, common_fields |-> EmptyDict,
                      doc_specific |-> EmptyDict]]

\* no request was answered and no document processed; UPLOAD_DIR is empty
NoRequest == [status |-> 0, doc_id |-> 0, file_path |-> <<>>, remove |-> "",
              detail |-> "", body |-> EmptyResult]
NoCall == [called |-> FALSE, path |-> <<>>, classify |-> "", ocr |-> "",
           calls |-> <<>>, raised |-> NoExc, value |-> EmptyResult]

ServiceIdle ==
    /\ uploads = {}
    /\ request = NoRequest
    /\ processed = NoCall

Init == CallInit /\ NormIdle /\ ThreadIdle /\ ServiceIdle

\* result[key] = value
SetItem(res, key, value) == [k \in DOMAIN res \cup {key} |->
                                 IF k = key THEN value ELSE res[k]]

\* the exceptions of the try block
BytesText == Exc("TypeError", "cannot use a string pattern on a bytes-like object")
Unhashable == Exc("TypeError", "unhashable type: 'list'")

\* the handler gone wrong: "except ValueError as e" lets a TypeError through
Except_ValueError(res, exc) ==
    IF exc.cls = "ValueError"
    THEN [result |-> SetItem(res, "error", exc.msg), raised |-> ""]
    ELSE [result |-> res, raised |-> exc.msg]

\* the try block left by the exception exc, as [result, raised]:
\* "except Exception as e" catches an exception of every class,
\* result['error'] = str(e), and nothing leaves the call
Except(res, exc) == [result |-> SetItem(res, "error", exc.msg), raised |-> ""]

\* the call: "if not text: return {}", else the initial result
Call(t, dt) ==
    /\ pc = "idle"
    /\ text' = t
    /\ doc_type' = dt
    /\ IF ~Truthy(t)
       THEN /\ result' = EmptyResult
            /\ pc' = "done"
       ELSE /\ result' = [extraction_timestamp |-> "utcnow",
                          document_type |-> IF DocTruthy(dt) THEN dt
                                            ELSE DocStr("unknown"),
                          extracted_fields |-> EmptyDict]
            /\ pc' = "common"
    /\ UNCHANGED <<common_fields, doc_specific, raised>>
    /\ UNCHANGED <<normVars, outerVars>>

\* common_fields = ...; result['extracted_fields'].update(common_fields);
\* re.search raises TypeError for a text that is no str
ExtractCommon ==
    /\ pc = "common"
    /\ IF text.ty # "str"
       THEN /\ result' = Except(result, BytesText).result
            /\ raised' = Except(result, BytesText).raised
            /\ pc' = "done"
            /\ UNCHANGED common_fields
       ELSE /\ common_fields' = ExtractUsingPatterns(text.v, patterns)
            /\ result' = SetItem(result, "extracted_fields",
                   Update(result.extracted_fields, common_fields'))
            /\ pc' = "specific"
            /\ UNCHANGED raised
    /\ UNCHANGED <<text, doc_type, doc_specific>>
    /\ UNCHANGED <<normVars, outerVars>>

\* if doc_type and doc_type in self.doc_type_patterns: ...update(doc_specific);
\* "in" raises TypeError for a doc_type that cannot be hashed
ExtractSpecific ==
    /\ pc = "specific"
    /\ IF DocTruthy(doc_type) /\ doc_type.ty = "list"
       THEN /\ result' = Except(result, Unhashable).result
            /\ raised' = Except(result, Unhashable).raised
            /\ pc' = "done"
            /\ UNCHANGED doc_specific
       ELSE IF DocTruthy(doc_type) /\ doc_type.v \in Keys(doc_type_patterns)
            THEN /\ doc_specific' = ExtractUsingPatterns(text.v,
                        Get(doc_type_patterns, doc_type.v))
                 /\ result' = SetItem(result, "extracted_fields",
                        Update(result.extracted_fields, doc_specific'))
                 /\ pc' = "post"
                 /\ UNCHANGED raised
            ELSE /\ pc' = "post"
                 /\ UNCHANGED <<result, doc_specific, raised>>
    /\ UNCHANGED <<text, doc_type, common_fields>>
    /\ UNCHANGED <<normVars, outerVars>>

\* result['extracted_fields'] = self._post_process_fields(...)
PostProcess ==
    /\ pc = "post"
    /\ LET run == PostProcessFields(result.extracted_fields)
       IN  IF run.exc # NoExc
           THEN /\ result' = Except(result, run.exc).result
                /\ raised' = Except(result, run.exc).raised
                /\ pc' = "done"
           ELSE /\ result' = SetItem(result, "extracted_fields", run.processed)
                /\ pc' = "validate"
                /\ UNCHANGED raised
    /\ UNCHANGED <<text, doc_type, common_fields, doc_specific>>
    /\ UNCHANGED <<normVars, outerVars>>

\* result['validation'] = self._validate_extracted_data(...); "doc_type in
\* required_fields" raises TypeError for a doc_type that cannot be hashed
Validate ==
    /\ pc = "validate"
    /\ IF doc_type.ty = "list"
       THEN /\ result' = Except(result, Unhashable).result
            /\ raised' = Except(result, Unhashable).raised
       ELSE /\ result' = SetItem(result, "validation",
                   ValidateExtractedData(result.extracted_fields, doc_type))
            /\ UNCHANGED raised
    /\ pc' = "done"
    /\ UNCHANGED <<text, doc_type, common_fields, doc_specific>>
    /\ UNCHANGED <<normVars, outerVars>>

Next ==
    \/ \E t \in Texts, dt \in DocTypes : Call(t, dt)
    \/ ExtractCommon
    \/ ExtractSpecific
    \/ PostProcess
    \/ Validate

Spec == Init /\ [][Next]_vars

(***************************************************************************)
(* _post_process_fields and _validate_extracted_data called directly, on   *)
(* field maps that need not come from the rule tables                      *)
(***************************************************************************)
\* the most fields a map has
MaxFields == 4

\* date-like values are First Sep Second Sep Third
FirstPart == {<<"1">>, <<"0", "1">>, <<"0", "5">>, <<"1", "5">>, <<"2", "0", "2", "3">>}
SecondPart ==
    {<<"0", "1">>, <<"0", "5">>, <<"1", "0">>, <<"1", "5">>, <<"3", "0">>, <<"2">>}
ThirdPart ==
    {<<"8", "0">>, <<"1", "9", "8", "0">>, <<"2", "0", "2", "3">>, <<"1", "0">>, <<"2", "0", "2">>}
Seps == {"/", "-"}

DateLike ==
    {a \o <<s1>> \o b \o <<s2>> \o c :
        a \in FirstPart, s1 \in Seps, b \in SecondPart, s2 \in Seps, c \in ThirdPart}

OtherValues ==
    {<<"J", "o", "h", "n", " ", "D", "o", "e">>,
     <<" ", "x", " ">>,
     <<>>,
     <<" ", " ">>,
     <<"$", "1", "5", "0", ".", "0", "0">>,
     <<"a", "b", "c">>,
     <<"0">>,
     <<" ", "0", "5", "/", "1", "0", "/", "2", "0", "2", "3", " ">>,
     <<"0", "2", "/", "2", "9", "/", "2", "0", "2", "4">>,
     <<"0", "2", "/", "2", "9", "/", "2", "0", "2", "3">>,
     <<"1", "2", "-", "3", "1", "-", "6", "8">>,
     <<"1", "2", "-", "3", "1", "-", "6", "9">>,
     <<"$", "1", ",", "2", "5", "0", ".", "5">>,
     <<"$", "a", "b", "c">>}

\* the first field of a map
FirstKeys == {"date_of_service", "Visit_Date", "patient_dob", "patient_name", "amount"}

\* the fields put after it, in this order
MoreFields ==
    << <<"date_of_birth", Str(<<"1", "5", "-", "0", "1", "-", "1", "9", "8", "0">>)>>,
       <<"patient_name", Str(<<"J", "o", "h", "n", " ", "D", "o", "e">>)>>,
       <<"member_id", Str(<<"A", "1">>)>>,
       <<"notes", Str(<<" ", "o", "k", " ">>)>> >>

\* the maps of one first field and at most MaxFields - 1 of the others
RawMaps ==
    {Update(<< <<k, Str(x)>> >>, SubSeq(MoreFields, 1, n)) :
        k \in FirstKeys, x \in DateLike \cup OtherValues,
        n \in 0..(IF MaxFields - 1 < Len(MoreFields) THEN MaxFields - 1
                  ELSE Len(MoreFields))}

\* the doc_type of a direct call of the validator
NormDocTypes ==
    {DocStr("insurance_claim"), DocStr("prescription"), DocStr("medical_report"),
     DocStr("unknown_type"), DocNone}

NormInit ==
    /\ CallInit
    /\ ThreadIdle
    /\ ServiceIdle
    /\ npc = "raw"
    /\ nfields \in RawMaps
    /\ pass1 = NoRun
    /\ pass2 = NoRun
    /\ nvalidation = NoValidation

\* pass1 = _post_process_fields(nfields)
Normalize ==
    /\ npc = "raw"
    /\ pass1' = PostProcessFields(nfields)
    /\ npc' = "normalized"
    /\ UNCHANGED <<nfields, pass2, nvalidation>>
    /\ UNCHANGED <<callVars, outerVars>>

\* pass2 = _post_process_fields(pass1)
Renormalize ==
    /\ npc = "normalized"
    /\ pass1.exc = NoExc
    /\ pass2' = PostProcessFields(pass1.processed)
    /\ npc' = "renormalized"
    /\ UNCHANGED <<nfields, pass1, nvalidation>>
    /\ UNCHANGED <<callVars, outerVars>>

\* nvalidation = _validate_extracted_data(pass1, dt)
ValidateNormalized(dt) ==
    /\ npc = "normalized"
    /\ pass1.exc = NoExc
    /\ nvalidation' = ValidateExtractedData(pass1.processed, dt)
    /\ npc' = "validated"
    /\ doc_type' = dt
    /\ UNCHANGED <<nfields, pass1, pass2>>
    /\ UNCHANGED <<pc, text, result, common_fields, doc_specific, raised>>
    /\ UNCHANGED outerVars

NormNext ==
    \/ Normalize
    \/ Renormalize
    \/ \E dt \in NormDocTypes : ValidateNormalized(dt)

SpecNorm == NormInit /\ [][NormNext]_vars

(***************************************************************************)
(* extract_structured_data called by several callers on one extractor.     *)
(* A step of a caller is one stage of its call; the stages read the rule   *)
(* tables from self and keep everything else in the caller's own locals.   *)
(* The texts are str and the doc_types str or None.                        *)
(***************************************************************************)
ThreadTexts ==
    {Str(<<>>),
     Str(Line_name \o <<"\n">> \o Line_member),
     Str(Line_medication \o <<"\n">> \o Line_dosage)}

ThreadDocTypes == {DocStr("insurance_claim"), DocNone}

\* the call of caller c: "if not text: return {}", else the initial result
ThreadCall(c, t, dt) ==
    /\ threads[c].pc = "idle"
    /\ threads' = [threads EXCEPT ![c] =
          IF ~Truthy(t)
          THEN [@ EXCEPT !.text = t, !.doc_type = dt, !.result = EmptyResult,
                         !.pc = "done"]
          ELSE [@ EXCEPT !.text = t, !.doc_type = dt,
                         !.result = [extraction_timestamp |-> "utcnow",
                                     document_type |-> IF DocTruthy(dt) THEN dt
                                                       ELSE DocStr("unknown"),
                                     extracted_fields |-> EmptyDict],
                         !.pc = "common"]]
    /\ UNCHANGED self
    /\ UNCHANGED <<callVars, normVars, serviceVars>>

\* common_fields = self._extract_using_patterns(text, self.patterns)
ThreadExtractCommon(c) ==
    /\ threads[c].pc = "common"
    /\ LET found == ExtractUsingPatterns(threads[c].text.v, self.patterns)
       IN  threads' = [threads EXCEPT ![c] =
              [@ EXCEPT !.common_fields = found,
                        !.result = SetItem(@, "extracted_fields",
                                       Update(@.extracted_fields, found)),
                        !.pc = "specific"]]
    /\ UNCHANGED self
    /\ UNCHANGED <<callVars, normVars, serviceVars>>

\* the stage gone wrong: the rules of the doc_type are merged into
\* self.patterns, and the text is searched with the merged table
ThreadExtractSpecific_Shared(c) ==
    /\ threads[c].pc = "specific"
    /\ LET dt == threads[c].doc_type
           known == DocTruthy(dt) /\ dt.v \in Keys(self.doc_type_patterns)
           merged == IF known
                     THEN Update(self.patterns, Get(self.doc_type_patterns, dt.v))
                     ELSE self.patterns
           found == ExtractUsingPatterns(threads[c].text.v, merged)
       IN  /\ self' = [self EXCEPT !.patterns = merged]
           /\ threads' = [threads EXCEPT ![c] =
                 [@ EXCEPT !.doc_specific = found,
                           !.result = SetItem(@, "extracted_fields",
                                          Update(@.extracted_fields, found)),
                           !.pc = "post"]]
    /\ UNCHANGED <<callVars, normVars, serviceVars>>

\* if doc_type and doc_type in self.doc_type_patterns: doc_specific = ...
ThreadExtractSpecific(c) ==
    /\ threads[c].pc = "specific"
    /\ LET dt == threads[c].doc_type
       IN  IF DocTruthy(dt) /\ dt.v \in Keys(self.doc_type_patterns)
           THEN LET found == ExtractUsingPatterns(threads[c].text.v,
                                 Get(self.doc_type_patterns, dt.v))
                IN  threads' = [threads EXCEPT ![c] =
                       [@ EXCEPT !.doc_specific = found,
                                 !.result = SetItem(@, "extracted_fields",
                                                Update(@.extracted_fields, found)),
                                 !.pc = "post"]]
           ELSE threads' = [threads EXCEPT ![c].pc = "post"]
    /\ UNCHANGED self
    /\ UNCHANGED <<callVars, normVars, serviceVars>>

\* result['extracted_fields'] = self._post_process_fields(...)
ThreadPostProcess(c) ==
    /\ threads[c].pc = "post"
    /\ threads' = [threads EXCEPT ![c] =
          [@ EXCEPT !.result = SetItem(@, "extracted_fields",
                                   PostProcessFields(@.extracted_fields).processed),
                    !.pc = "validate"]]
    /\ UNCHANGED self
    /\ UNCHANGED <<callVars, normVars, serviceVars>>

\* result['validation'] = self._validate_extracted_data(...); return result
ThreadValidate(c) ==
    /\ threads[c].pc = "validate"
    /\ threads' = [threads EXCEPT ![c] =
          [@ EXCEPT !.result = SetItem(@, "validation",
                                   ValidateExtractedData(@.extracted_fields,
                                                         threads[c].doc_type)),
                    !.pc = "done"]]
    /\ UNCHANGED self
    /\ UNCHANGED <<callVars, normVars, serviceVars>>

ThreadNext ==
    \E c \in Callers :
        \/ \E t \in ThreadTexts, dt \in ThreadDocTypes : ThreadCall(c, t, dt)
        \/ ThreadExtractCommon(c)
        \/ ThreadExtractSpecific(c)
        \/ ThreadPostProcess(c)
        \/ ThreadValidate(c)

SpecThreads == Init /\ [][ThreadNext]_vars

(***************************************************************************)
(* HealthcareDocumentProcessor.process_document and the endpoint           *)
(* upload_document.  The two Azure services and os.remove are the          *)
(* environment: each either succeeds or raises.                            *)
(***************************************************************************)
\* the names bound in the module src.document_processor by its imports and
\* its top-level statements
ModuleNames ==
    {"os", "Dict", "List", "Optional", "Tuple", "Path", "logging", "load_dotenv",
     "DocumentAnalysisClient", "AzureKeyCredential", "ComputerVisionClient",
     "OperationStatusCodes", "CognitiveServicesCredentials",
     "HealthcareDataExtractor", "logger", "HealthcareDocumentProcessor"}

\* the exception of a name that is read and bound neither locally nor in the
\* module nor in builtins
NameError(name) == Exc("NameError", "name '" \o name \o "' is not defined")

\* the dict extract_structured_data returns for a text that is a str and a
\* doc_type that is a str or None
ExtractStructuredData(t, dt) ==
    IF ~Truthy(t) THEN EmptyResult
    ELSE LET common == ExtractUsingPatterns(t.v, patterns)
             specific == IF DocTruthy(dt) /\ dt.v \in Keys(doc_type_patterns)
                         THEN ExtractUsingPatterns(t.v, Get(doc_type_patterns, dt.v))
                         ELSE EmptyDict
             fields == PostProcessFields(
                           Update(Update(EmptyDict, common), specific)).processed
         IN  [extraction_timestamp |-> "utcnow",
              document_type |-> IF DocTruthy(dt) THEN dt ELSE DocStr("unknown"),
              extracted_fields |-> fields,
              validation |-> ValidateExtractedData(fields, dt)]

\* what classify_document and extract_text do on a document: return their
\* dict, or raise what the service raised
ClassifyOk == [document_type |-> DocStr("insurance_claim"), confidence |-> "0.9"]
OcrOk == [text |-> Str(Line_name \o <<"\n">> \o Line_member),
          language |-> "en", pages |-> 1]
ServiceError == Exc("HttpResponseError", "service request failed")
Outcomes == {"ok", "fail"}

\* process_document(path) as the record of the call: calls are the steps
\* of the pipeline that were called, in order; raised is the exception the
\* call re-raises from its handler, NoExc when it returns value.  classify
\* and ocr are the outcomes of the two services for this document.
ProcessDocumentRun(path, classify, ocr) ==
    LET failed(calls, exc) ==
            [called |-> TRUE, path |-> path, classify |-> classify, ocr |-> ocr,
             calls |-> calls, raised |-> exc, value |-> EmptyResult]
    IN  IF "datetime" \notin ModuleNames
        THEN failed(<<>>, NameError("datetime"))
        ELSE IF classify = "fail"
        THEN failed(<<"classify_document">>, ServiceError)
        ELSE IF ocr = "fail"
        THEN failed(<<"classify_document", "extract_text">>, ServiceError)
        ELSE [called |-> TRUE, path |-> path, classify |-> classify, ocr |-> ocr,
              calls |-> <<"classify_document", "extract_text",
                          "extract_structured_data">>,
              raised |-> NoExc,
              value |-> [classification |-> ClassifyOk,
                         extracted_text |-> OcrOk,
                         structured_data |->
                             ExtractStructuredData(OcrOk.text,
                                                   ClassifyOk.document_type),
                         metadata |-> [filename |-> path]]]

\* the documents process_document is called with directly
SamplePaths == {<<"sample", ".pdf">>, <<"scan", ".png">>}

\* processor.process_document(path), called as test_processor.py does
ProcessDocument(path, classify, ocr) ==
    /\ processed' = ProcessDocumentRun(path, classify, ocr)
    /\ UNCHANGED <<uploads, request>>
    /\ UNCHANGED <<callVars, normVars, threadVars>>

\* the most requests the endpoint serves; uuid4 gives each its own doc_id
MaxUploads == 3
DocIds == 1..MaxUploads

\* file.filename of an upload: a name with an extension, a name without
\* one, or no name
Filenames ==
    {<<"c", "l", "a", "i", "m", ".", "p", "d", "f">>,
     <<"R", "E", "A", "D", "M", "E">>,
     <<>>}

\* os.path.splitext(name)[1] of a name without a directory: from the last
\* dot on, or '' when there is no dot or only leading dots
Splitext(name) ==
    LET dots == {i \in 2..Len(name) : name[i] = "."
                    /\ \E j \in 1..(i - 1) : name[j] # "."}
    IN  IF dots = {} THEN <<>>
        ELSE SubSeq(name, CHOOSE i \in dots : \A j \in dots : j <= i, Len(name))

\* os.path.splitext(file.filename)[1] if file.filename else '.bin'
FileExtension(filename) ==
    IF filename = <<>> THEN <<".", "b", "i", "n">> ELSE Splitext(filename)

\* upload_document(file) from the request to the response: the file is
\* saved under uploads/<doc_id><ext>; process_document is called; if it
\* returns, os.remove is tried (a failure is logged and passed over) and the
\* answer is 200; if it raises, the handler at line 82 answers 500.
UploadDocument(id, filename, classify, ocr, remove) ==
    /\ \A f \in uploads : f[1] # id
    /\ request.doc_id # id
    /\ processed' = ProcessDocumentRun(<<id, FileExtension(filename)>>, classify, ocr)
    /\ LET file_path == processed'.path
           returned == processed'.value
       IN  IF processed'.raised # NoExc
           THEN /\ uploads' = uploads \cup {file_path}
                /\ request' = [status |-> 500, doc_id |-> id,
                               file_path |-> file_path, remove |-> remove,
                               detail |-> "Error processing document: "
                                              \o processed'.raised.msg,
                               body |-> EmptyResult]
           ELSE /\ uploads' = IF remove = "ok" THEN uploads \ {file_path}
                              ELSE uploads \cup {file_path}
                /\ request' = [status |-> 200, doc_id |-> id,
                               file_path |-> file_path, remove |-> remove,
                               detail |-> "",
                               body |-> [document_id |-> id,
                                         document_type |->
                                             returned.classification.document_type,
                                         confidence |->
                                             returned.classification.confidence,
                                         extracted_text |->
                                             returned.extracted_text.text,
                                         metadata |-> returned.metadata]]
    /\ UNCHANGED <<callVars, normVars, threadVars>>

ServiceNext ==
    \/ \E path \in SamplePaths, classify \in Outcomes, ocr \in Outcomes :
           ProcessDocument(path, classify, ocr)
    \/ \E id \in DocIds, filename \in Filenames,
          classify \in Outcomes, ocr \in Outcomes, remove \in Outcomes :
           UploadDocument(id, filename, classify, ocr, remove)

SpecService == Init /\ [][ServiceNext]_vars

(***************************************************************************)
(* Properties of extract_structured_data (specification Spec)              *)
(***************************************************************************)
Registered == {DocStr("insurance_claim"), DocStr("prescription"), DocStr("medical_report")}

\* the call returned a result made from a text that is a non-empty str
Returned == pc = "done" /\ text.ty = "str" /\ Truthy(text)

\* the required-field lists, as the claim states them
C1_Required(dt) ==
    CASE dt = DocStr("insurance_claim") -> {"patient_name", "member_id", "date_of_service"}
      [] dt = DocStr("prescription") -> {"patient_name", "medication", "dosage"}
      [] dt = DocStr("medical_report") -> {"patient_name", "report_type"}
      [] OTHER -> {}

\* C1: whenever a call yields a validation report, is_valid is false if and
\* only if some required field of the doc_type is absent from
\* extracted_fields or has an empty value; a doc_type that is None or not
\* registered has no required field, so is_valid is true.
C1_RequiredIff ==
    (pc = "done" /\ "validation" \in DOMAIN result) =>
        (~result.validation.is_valid <=>
            \E f \in C1_Required(doc_type) :
                \/ f \notin Keys(result.extracted_fields)
                \/ ~Truthy(Get(result.extracted_fields, f)))

\* an insurance claim with a patient name and no member id is reported invalid
C1_Witness ==
    /\ pc = "done" /\ "validation" \in DOMAIN result
    /\ doc_type = DocStr("insurance_claim")
    /\ ~result.validation.is_valid
    /\ "patient_name" \in Keys(result.extracted_fields)
    /\ "member_id" \notin Keys(result.extracted_fields)

\* the text block of the end-to-end scenario
C2_Text == Str(JoinLines(<<1, 2, 3>>))

\* C2: for the lines "Name: John Doe", "Member ID: ABC123456", "Date of
\* Service: 05/10/2023" and doc_type insurance_claim, the result has
\* patient_name "John Doe", member_id "ABC123456", date_of_service
\* "2023-05-10", and is_valid with no errors.
C2_EndToEnd ==
    (pc = "done" /\ text = C2_Text /\ doc_type = DocStr("insurance_claim")) =>
        /\ {"patient_name", "member_id", "date_of_service"}
               \subseteq Keys(result.extracted_fields)
        /\ Get(result.extracted_fields, "patient_name") =
               Str(<<"J", "o", "h", "n", " ", "D", "o", "e">>)
        /\ Get(result.extracted_fields, "member_id") =
               Str(<<"A", "B", "C", "1", "2", "3", "4", "5", "6">>)
        /\ Get(result.extracted_fields, "date_of_service") =
               Str(<<"2", "0", "2", "3", "-", "0", "5", "-", "1", "0">>)
        /\ result.validation.is_valid
        /\ result.validation.errors = <<>>

\* C3: an exception raised while extracting, normalizing or validating (a
\* text that is no str, a doc_type that cannot be hashed) does not leave the
\* call; the result returned has error set to its message and still has
\* extraction_timestamp, document_type and the extracted_fields assembled
\* before the stage that failed.
C3_Caught ==
    (pc = "done" /\ Truthy(text)) =>
        /\ raised = ""
        /\ (text.ty # "str" \/ doc_type.ty = "list") =>
              /\ {"error", "extraction_timestamp", "document_type", "extracted_fields"}
                     \subseteq DOMAIN result
              /\ result.extraction_timestamp = "utcnow"
              /\ result.document_type =
                     (IF doc_type \in {DocNone, DocStr(""), DocList("[]")}
                      THEN DocStr("unknown") ELSE doc_type)
              /\ IF text.ty # "str"
                 THEN /\ result.error =
                            "cannot use a string pattern on a bytes-like object"
                      /\ result.extracted_fields = EmptyDict
                 ELSE /\ result.error = "unhashable type: 'list'"
                      /\ result.extracted_fields =
                            (IF doc_type = DocList("[]")
                             THEN PostProcessFields(common_fields).processed
                             ELSE common_fields)

\* validation failed on a doc_type that cannot be hashed, after the fields
\* were normalized
C3_Witness ==
    /\ pc = "done" /\ "error" \in DOMAIN result
    /\ doc_type = DocList("[]")
    /\ "date_of_service" \in Keys(result.extracted_fields)
    /\ Get(result.extracted_fields, "date_of_service") =
           Str(<<"2", "0", "2", "3", "-", "0", "5", "-", "1", "0">>)

\* C4 as stated: on every path of a call with a non-empty text, also with
\* error set, the result has extraction_timestamp, document_type,
\* extracted_fields holding the normalized map, and a validation report with
\* is_valid, errors and warnings; error is the only optional key.
C4_AlwaysComplete ==
    (pc = "done" /\ Truthy(text)) =>
        /\ {"extraction_timestamp", "document_type", "extracted_fields", "validation"}
               \subseteq DOMAIN result
        /\ DOMAIN result \subseteq
               {"extraction_timestamp", "document_type", "extracted_fields",
                "validation", "error"}
        /\ DOMAIN result.validation = {"is_valid", "errors", "warnings"}
        /\ result.extracted_fields =
               PostProcessFields(Update(common_fields, doc_specific)).processed

\* C4 as amended: the result of a call with a non-empty text always has
\* extraction_timestamp, document_type and extracted_fields, and no key
\* other than these, validation and error; it has either validation or error,
\* never both; with validation, the report has is_valid, errors and warnings
\* and extracted_fields is the normalized map.
C4_CompleteUnlessError ==
    (pc = "done" /\ Truthy(text)) =>
        /\ {"extraction_timestamp", "document_type", "extracted_fields"}
               \subseteq DOMAIN result
        /\ DOMAIN result \subseteq
               {"extraction_timestamp", "document_type", "extracted_fields",
                "validation", "error"}
        /\ ("validation" \in DOMAIN result) <=> ("error" \notin DOMAIN result)
        /\ ("validation" \in DOMAIN result) =>
              /\ DOMAIN result.validation = {"is_valid", "errors", "warnings"}
              /\ result.extracted_fields =
                     PostProcessFields(Update(common_fields, doc_specific)).processed

\* a result with error set, no validation, and a date that was not normalized
C4_Witness ==
    /\ pc = "done" /\ "error" \in DOMAIN result
    /\ "validation" \notin DOMAIN result
    /\ "date_of_service" \in Keys(result.extracted_fields)
    /\ Get(result.extracted_fields, "date_of_service") =
           Str(<<"0", "5", "/", "1", "0", "/", "2", "0", "2", "3">>)

\* C5 as stated: for an empty text the call raises nothing and returns a
\* result that has an extracted_fields map with no keys.
C5_EmptyFieldMap ==
    (pc = "done" /\ ~Truthy(text)) =>
        /\ raised = ""
        /\ "extracted_fields" \in DOMAIN result
        /\ result.extracted_fields = EmptyDict

\* C5 as amended: for an empty text the call raises nothing and returns the
\* empty dict: a result with no key at all, so without extracted_fields.
C5_EmptyResult ==
    (pc = "done" /\ ~Truthy(text)) => (raised = "" /\ DOMAIN result = {})

\* a call with the empty str and a registered doc_type has returned
C5_Witness ==
    pc = "done" /\ text = Str(<<>>) /\ doc_type = DocStr("insurance_claim")

\* the names of a rule table
Names(pats) == {pats[i][1] : i \in 1..Len(pats)}

\* C6: for a registered doc_type, the raw map handed to the normalizer is
\* the union of the common matches and the type-specific matches: it has
\* the keys of both, a key of the type-specific matches has the
\* type-specific value, every other key its common value.
C6_Merge ==
    (pc = "post" /\ doc_type \in Registered) =>
        /\ Keys(common_fields) \subseteq Names(patterns)
        /\ Keys(doc_specific) \subseteq Names(Get(doc_type_patterns, doc_type.v))
        /\ Keys(result.extracted_fields) = Keys(common_fields) \cup Keys(doc_specific)
        /\ \A k \in Keys(result.extracted_fields) :
              Get(result.extracted_fields, k) =
                  (IF k \in Keys(doc_specific) THEN Get(doc_specific, k)
                   ELSE Get(common_fields, k))

\* a prescription with a common match and a type-specific match, merged
C6_Witness ==
    /\ pc = "post" /\ doc_type = DocStr("prescription")
    /\ "patient_name" \in Keys(common_fields)
    /\ "medication" \in Keys(doc_specific)
    /\ {"patient_name", "medication"} \subseteq Keys(result.extracted_fields)

\* the names of the common rules, as the specification lists them
C7_CommonNames ==
    {"patient_name", "date_of_birth", "member_id", "date_of_service",
     "provider_name", "diagnosis_code", "procedure_code", "amount", "phone"}

\* C7: for a doc_type that is absent or is a str outside the registered set,
\* only the common rules are applied (no other name is in extracted_fields),
\* no "Missing required field" error is added and is_valid is true; an
\* absent doc_type is recorded as "unknown".
C7_UnknownDocType ==
    (Returned /\ doc_type \in {DocNone, DocStr(""), DocStr("unknown_type"),
                                DocStr("id_proof")}) =>
        /\ "validation" \in DOMAIN result
        /\ doc_specific = EmptyDict
        /\ Keys(result.extracted_fields) \subseteq C7_CommonNames
        /\ result.validation.errors = <<>>
        /\ result.validation.is_valid
        /\ doc_type = DocNone => result.document_type = DocStr("unknown")

\* "unknown_type" with a patient name and nothing else is valid
C7_Witness ==
    /\ Returned /\ doc_type = DocStr("unknown_type")
    /\ Keys(result.extracted_fields) = {"patient_name"}
    /\ result.validation.is_valid

(***************************************************************************)
(* Properties of the normalizer and the validator (specification SpecNorm) *)
(***************************************************************************)
\* the field names of the model that contain "date" or "dob" in any case
DateNames == {"date_of_service", "date_of_birth", "Visit_Date", "patient_dob"}
AmountNames == {"amount", "patient_responsibility"}

\* the formats MM/DD/YYYY, MM-DD-YYYY, YYYY-MM-DD, MM/DD/YY, MM-DD-YY
C8_Formats ==
    << <<"%m", "/", "%d", "/", "%Y">>,
       <<"%m", "-", "%d", "-", "%Y">>,
       <<"%Y", "-", "%m", "-", "%d">>,
       <<"%m", "/", "%d", "/", "%y">>,
       <<"%m", "-", "%d", "-", "%y">> >>

\* out is x coerced: the date of the first format that parses x, written
\* YYYY-MM-DD, or x itself when no format parses it
C8_Coerced(x, out) ==
    LET ok(j) == Strptime(x, C8_Formats[j]).ok
        iso(j) == LET dt == Strptime(x, C8_Formats[j])
                  IN  Str(IsoFormat(dt.y, dt.m, dt.d))
    IN  \/ \E j \in 1..Len(C8_Formats) :
              ok(j) /\ (\A h \in 1..(j - 1) : ~ok(h)) /\ out = iso(j)
        \/ (\A j \in 1..Len(C8_Formats) : ~ok(j)) /\ out = Str(x)

\* the two values the claim names
C8_Examples(x, out) ==
    /\ x = <<"0", "1", "/", "1", "5", "/", "1", "9", "8", "0">> =>
           out = Str(<<"1", "9", "8", "0", "-", "0", "1", "-", "1", "5">>)
    /\ x = <<"1", "5", "-", "0", "1", "-", "1", "9", "8", "0">> => out = Str(x)

C9_Warnings ==
    npc = "validated" =>
        LET f == pass1.processed
            w == nvalidation.warnings
        IN  /\ \A i \in 1..Len(f) :
                  (f[i][1] \in DateNames /\ f[i][2].ty = "str") =>
                      ((\E j \in 1..Len(w) : w[j] = InvalidDate(f[i][1], f[i][2].v))
                          <=> ~FromIsoFormatOk(f[i][2].v))
            /\ \A j \in 1..Len(w) :
                  /\ w[j].msg = "Invalid date format for"
                  /\ w[j].field \in DateNames \cap Keys(f)
                  /\ Get(f, w[j].field) = Str(w[j].value)
                  /\ \A h \in 1..Len(w) : w[h].field = w[j].field => h = j
            /\ nvalidation.is_valid <=>
                  \A r \in C1_Required(doc_type) : r \in Keys(f) /\ Truthy(Get(f, r))

\* an insurance claim with all its required fields and two dates that do
\* not parse: two warnings, and valid
C9_Witness ==
    /\ npc = "validated" /\ doc_type = DocStr("insurance_claim")
    /\ Len(nvalidation.warnings) = 2
    /\ nvalidation.warnings[1].field = "date_of_service"
    /\ nvalidation.is_valid

\* YYYY-MM-DD in digits
IsoShape(s) ==
    /\ Len(s) = 10
    /\ \A i \in 1..10 : IF i \in {5, 8} THEN s[i] = "-" ELSE s[i] \in Digit

\* every value of the map was left unchanged, or rewritten to an ISO date,
\* by the first pass
C10_StringsKept ==
    \A i \in 1..Len(nfields) :
        LET k == nfields[i][1]
        IN  /\ k \in Keys(pass1.processed)
            /\ Get(pass1.processed, k).ty = "str"
            /\ \/ Get(pass1.processed, k) = nfields[i][2]
               \/ k \in DateNames /\ IsoShape(Get(pass1.processed, k).v)

\* C10: when the first pass left every value a string, unchanged or
\* rewritten to an ISO date, a second pass over its result returns the same
\* map.
C10_Idempotent ==
    (npc = "renormalized" /\ C10_StringsKept) =>
        (pass2.exc = NoExc /\ pass2.processed = pass1.processed)

\* 05/10/2023 became 2023-05-10 in the first pass and stayed so in the second
C10_Witness ==
    /\ npc = "renormalized" /\ C10_StringsKept
    /\ nfields[1] = <<"date_of_service",
                      Str(<<"0", "5", "/", "1", "0", "/", "2", "0", "2", "3">>)>>
    /\ Get(pass2.processed, "date_of_service") =
           Str(<<"2", "0", "2", "3", "-", "0", "5", "-", "1", "0">>)
    /\ Len(pass2.processed) = 4

\* value with '$' and ',' taken out and stripped, as float() is given it
C11_Cleaned(x) == Strip(Remove(Remove(x, "$"), ","))

\* the two amounts the claim names, and two with ',' and with '$' alone
C11_Examples(x, out) ==
    /\ x = <<"$", "1", "5", "0", ".", "0", "0">> => out = Float(15, 1)
    /\ x = <<"a", "b", "c">> => out = Str(x)
    /\ x = <<"$", "1", ",", "2", "5", "0", ".", "5">> => out = Float(12505, 0 - 1)
    /\ x = <<"$", "a", "b", "c">> => out = Str(x)

\* what the claim says of one kept amount field and of one kept date field,
\* x being the stripped value
C11_Amount(x, out) ==
    /\ IF PyFloat(C11_Cleaned(x)).ok THEN out.ty = "float" ELSE out = Str(x)
    /\ C11_Examples(x, out)

C11_DateFallback(x, out) ==
    (\A j \in 1..Len(C8_Formats) : ~Strptime(x, C8_Formats[j]).ok) => out = Str(x)

C12_RequiredList(dt) ==
    CASE dt = DocStr("insurance_claim") -> <<"patient_name", "member_id", "date_of_service">>
      [] dt = DocStr("prescription") -> <<"patient_name", "medication", "dosage">>
      [] dt = DocStr("medical_report") -> <<"patient_name", "report_type">>
      [] OTHER -> <<>>

\* the position of field k in the map f
C12_Position(f, k) == CHOOSE i \in 1..Len(f) : f[i][1] = k

\* C12: the errors are the "Missing required field: <name>" entries of the
\* required fields of the doc_type that are absent from the field map or
\* empty in it, one each, in the order of the required-field list, and
\* nothing else; the warnings are in the order of the field map.
C12_ErrorOrder ==
    npc = "validated" =>
        LET f == pass1.processed
            e == nvalidation.errors
            w == nvalidation.warnings
            missing == SelectSeq(C12_RequiredList(doc_type),
                           LAMBDA r : r \notin Keys(f) \/ ~Truthy(Get(f, r)))
        IN  /\ e = [i \in 1..Len(missing) |-> MissingRequired(missing[i])]
            /\ (doc_type = DocStr("insurance_claim")
                  /\ "patient_name" \in Keys(f) /\ Truthy(Get(f, "patient_name"))
                  /\ "date_of_service" \in Keys(f) /\ Truthy(Get(f, "date_of_service"))
                  /\ "member_id" \notin Keys(f))
                 => e = <<[msg |-> "Missing required field", field |-> "member_id"]>>
            /\ \A j \in 1..Len(w) :
                  /\ w[j].field \in Keys(f)
                  /\ \A h \in 1..Len(w) :
                        j < h => C12_Position(f, w[j].field) < C12_Position(f, w[h].field)

\* an insurance claim that lacks member_id alone, with two dates that do
\* not parse: one error, and the two warnings in the order of the map
C12_Witness ==
    /\ npc = "validated" /\ doc_type = DocStr("insurance_claim")
    /\ nvalidation.errors = <<[msg |-> "Missing required field", field |-> "member_id"]>>
    /\ ~nvalidation.is_valid
    /\ Len(nvalidation.warnings) = 2
    /\ nvalidation.warnings[1].field = "date_of_service"
    /\ nvalidation.warnings[2].field = "date_of_birth"

(***************************************************************************)
(* Properties of concurrent calls (specification SpecThreads)              *)
(***************************************************************************)
\* extracted_fields and validation of extract_structured_data(t, dt) run
\* alone from start to end, on the rule tables __init__ set
C13_Alone(t, dt) ==
    LET common == ExtractUsingPatterns(t.v, patterns)
        specific == IF DocTruthy(dt) /\ dt.v \in Keys(doc_type_patterns)
                    THEN ExtractUsingPatterns(t.v, Get(doc_type_patterns, dt.v))
                    ELSE EmptyDict
        fields == PostProcessFields(Update(Update(EmptyDict, common), specific)).processed
    IN  [extracted_fields |-> fields,
         validation |-> ValidateExtractedData(fields, dt)]

\* C13: in every interleaving of the callers' calls the rule tables stay as
\* __init__ set them, and every call that has returned has the
\* extracted_fields and the validation it has when run alone ({} for an
\* empty text).
C13_Isolation ==
    /\ self = [patterns |-> patterns, doc_type_patterns |-> doc_type_patterns]
    /\ \A c \in Callers :
          threads[c].pc = "done" =>
              IF ~Truthy(threads[c].text) THEN threads[c].result = EmptyResult
              ELSE LET alone == C13_Alone(threads[c].text, threads[c].doc_type)
                   IN  /\ threads[c].result.extracted_fields = alone.extracted_fields
                       /\ threads[c].result.validation = alone.validation

\* caller 1 returned from an insurance claim, with claim_number among its
\* fields, while caller 2 is in the middle of a call on the same text
\* without a doc_type
C13_Witness ==
    /\ threads[1].pc = "done"
    /\ threads[1].doc_type = DocStr("insurance_claim")
    /\ "validation" \in DOMAIN threads[1].result
    /\ "claim_number" \in Keys(threads[1].result.extracted_fields)
    /\ threads[2].pc = "post"
    /\ threads[2].doc_type = DocNone
    /\ threads[2].text = threads[1].text
    /\ Keys(threads[2].result.extracted_fields) # {}

(***************************************************************************)
(* Properties of the common rules (specification Spec)                     *)
(***************************************************************************)
\* the labeled lines of the pool that a common rule is registered for, as
\* <<line, rule, value>>
C14_Labeled ==
    {<<Line_name, "patient_name", <<"J", "o", "h", "n", " ", "D", "o", "e">> >>,
     <<Line_member, "member_id", <<"A", "B", "C", "1", "2", "3", "4", "5", "6">> >>,
     <<Line_service, "date_of_service",
       <<"0", "5", "/", "1", "0", "/", "2", "0", "2", "3">> >>,
     <<Line_dob, "date_of_birth",
       <<"1", "5", "-", "0", "1", "-", "1", "9", "8", "0">> >>}

\* C14: once the common rules were applied to a text, every common rule
\* whose labeled line is in the text has produced exactly the value of that
\* line, whatever lines come before and after it.
C14_LabeledValue ==
    (pc \in {"specific", "post", "validate", "done"} /\ text.ty = "str") =>
        \A l \in C14_Labeled :
            Contains(text.v, l[1]) =>
                /\ l[2] \in Keys(common_fields)
                /\ Get(common_fields, l[2]) = Str(l[3])

(***************************************************************************)
(* Properties of process_document and upload_document (specification       *)
(* SpecService)                                                            *)
(***************************************************************************)
\* C15: a call of process_document calls classify_document, extract_text
\* and extract_structured_data in this order; when the three steps succeed
\* it returns a dict with the keys classification, extracted_text,
\* structured_data and metadata; it raises only when one of the steps fails.
C15_Pipeline ==
    processed.called =>
        /\ (processed.classify = "ok" /\ processed.ocr = "ok") =>
              /\ processed.raised = NoExc
              /\ processed.calls = <<"classify_document", "extract_text",
                                     "extract_structured_data">>
              /\ DOMAIN processed.value =
                     {"classification", "extracted_text", "structured_data",
                      "metadata"}
        /\ processed.raised # NoExc =>
              (processed.classify = "fail" \/ processed.ocr = "fail")

\* C16: when upload_document has answered, with 200 or with 500, and
\* os.remove does not fail, the file saved for the request is no longer in
\* the upload directory.
C16_TempFileDeleted ==
    (request.status # 0 /\ request.remove = "ok") =>
        request.file_path \notin uploads

====
